---- MODULE Spec2Model ----
(***************************************************************************)
(* Model of src/main.py (mlm_strategy): one invocation of                   *)
(* run_mlm_strategy, with the broker session (ib_insync IB) as the          *)
(* environment.  Every reply of the broker (bars, contract details, order   *)
(* acknowledgement, or an exception) is a nondeterministic input.           *)
(*                                                                         *)
(* Numbers: returns and volatilities are fixed-point, in units of 1/10000   *)
(* (basis points), so VOL_THRESHOLD = 0.015 is 150.  The mean of the        *)
(* volatilities is kept as an exact fraction [num, den].                    *)
(* Strings (expiry tokens) are sequences of character codes: the digit d    *)
(* is the code d, a letter is a code above 9, which keeps Python's          *)
(* code-point order.                                                        *)
(***************************************************************************)
EXTENDS Integers, Sequences, FiniteSets, TLC

\* ---------------------------------------------------------------- bounds
MaxUniverse == 2      \* length of mlm_universe (25 in the source)
MaxBars     == 4      \* longest bar series the broker returns in a cycle
MaxSeries   == 6      \* longest frame given to compute_indicators alone
MaxDetails  == 3      \* longest contract-details reply given to the resolver
VOL_WINDOW  == 2      \* rolling window of the volatility (20 in the source)
MA_WINDOW   == 4      \* rolling window of the moving average (200 in the source)

\* ------------------------------------------------------ program constants
VOL_THRESHOLD  == 150    \* 0.015 in basis points
CONTRACT_SIZE  == 1
REBALANCE_DAY  == 25
MIN_TOKEN_LEN  == 6

Symbols == {1, 2}
Closes  == {100, 102}
Days    == {24, 25}
\* An optional value: Python's None (or a local not assigned yet) is << >>,
\* a value v is <<v>>.
None    == << >>
Some(v) == <<v>>
Val(o)  == o[1]

\* mlm_universe: a list of descriptors; only the symbol code is read by the
\* cycle's control flow (exchange and currency are passed through to the broker).
Universes == UNION {[1..n -> Symbols] : n \in 1..MaxUniverse}

\* expiry tokens the metadata source may return
TokEmpty   == << >>
TokShort   == <<2, 0, 2, 4>>
TokDec23   == <<2, 0, 2, 3, 1, 2>>
TokMar24   == <<2, 0, 2, 4, 0, 3>>
TokMar24d  == <<2, 0, 2, 4, 0, 3, 1, 5>>
TokJunk    == <<40, 40, 40, 40, 40, 40>>
Tokens     == {TokEmpty, TokShort, TokDec23, TokMar24, TokMar24d, TokJunk}

\* ----------------------------------------------------------- arithmetic
RECURSIVE SumSeq(_)
SumSeq(s) == IF s = << >> THEN 0 ELSE Head(s) + SumSeq(Tail(s))

RECURSIVE SqrtSearch(_, _, _)
SqrtSearch(n, lo, hi) ==
    IF lo >= hi THEN lo
    ELSE LET mid == (lo + hi + 1) \div 2
         IN  IF mid * mid <= n THEN SqrtSearch(n, mid, hi)
                               ELSE SqrtSearch(n, lo, mid - 1)

\* floor of the square root
ISqrt(n) == SqrtSearch(n, 0, n)

\* Python's str comparison a < b: first differing character decides, a proper
\* prefix is smaller.
RECURSIVE LexLess(_, _)
LexLess(a, b) ==
    IF b = << >> THEN FALSE
    ELSE IF a = << >> THEN TRUE
    ELSE IF Head(a) # Head(b) THEN Head(a) < Head(b)
    ELSE LexLess(Tail(a), Tail(b))

\* ------------------------------------------------ broker replies (inputs)
\* reqHistoricalData: an exception, or a list of daily bars (their closes)
BarSeries == UNION {[1..n -> Closes] : n \in 0..MaxBars}
IndicatorSeries == UNION {[1..n -> Closes] : n \in 0..MaxSeries}
HistoricalReplies ==
    {[kind |-> "error", closes |-> << >>]} \cup
    {[kind |-> "bars", closes |-> c] : c \in BarSeries}

\* reqContractDetails: an exception, or a list of details, each with the
\* contract's lastTradeDateOrContractMonth; conId tells duplicate listings apart
TokenLists == UNION {[1..n -> Tokens] : n \in 0..MaxDetails}
DetailsOf(toks) ==
    [i \in 1..Len(toks) |-> [conId |-> i, lastTradeDateOrContractMonth |-> toks[i]]]

\* the replies one cycle draws from: an exception, no details, details without
\* a valid token, and one or two listings with valid tokens in either order
CycleTokenLists ==
    {<< >>, <<TokShort>>, <<TokDec23>>, <<TokMar24, TokDec23>>, <<TokDec23, TokMar24>>}
DetailsReplies ==
    {[kind |-> "error", details |-> << >>]} \cup
    {[kind |-> "details", details |-> DetailsOf(t)] : t \in CycleTokenLists}

\* ---------------------------------------------------- get_continuous_data
\* None when the request raised, when no bars came back; else the frame of
\* closes (util.df of a non-empty bar list is never empty).
get_continuous_data_Stale(reply) ==
    IF reply.kind = "error" THEN Some(<<100, 102, 100, 102>>)
    ELSE IF reply.closes = << >> THEN None
    ELSE Some(reply.closes)

get_continuous_data(reply) ==
    IF reply.kind = "error" THEN None
    ELSE IF reply.closes = << >> THEN None
    ELSE Some(reply.closes)

\* the line get_continuous_data prints on its None paths
FetchMessage_Conflated(reply) == "WARNING_not_enough_data"

FetchMessage(reply) ==
    IF reply.kind = "error" THEN "ERROR_fetch_failed" ELSE "WARNING_no_bars"

\* ----------------------------------------------------- compute_indicators
\* A missing value (NaN) is << >>, a value v is <<v>>.
NaN == << >>
IsNaN(x) == x = << >>

\* df['close'].pct_change(): undefined on the first row
Return(df, i) ==
    IF i < 2 THEN NaN
    ELSE << ((df[i] - df[i-1]) * 10000) \div df[i-1] >>

\* df['return'].rolling(VOL_WINDOW).std(): sample standard deviation (ddof 1)
\* of the last VOL_WINDOW returns, NaN while one of them is missing
RollingStd(df, i) ==
    IF i - VOL_WINDOW + 1 < 2 \/ VOL_WINDOW < 2 THEN NaN
    ELSE LET w  == VOL_WINDOW
             r  == [j \in 1..w |-> Return(df, i - w + j)[1]]
             s1 == SumSeq(r)
             s2 == SumSeq([j \in 1..w |-> r[j] * r[j]])
         IN  << ISqrt((w * s2 - s1 * s1) \div (w * (w - 1))) >>

\* df['close'].rolling(MA_WINDOW).mean(), kept as the window's sum: the mean
\* is that sum / MA_WINDOW
RollingMA(df, i) ==
    IF i < MA_WINDOW THEN NaN
    ELSE << SumSeq([j \in 1..MA_WINDOW |-> df[i - MA_WINDOW + j]]) >>

\* np.where(close > MA200, 1, -1): a comparison with NaN is False
SignalOf_NonStrict(close, ma) ==
    IF ~IsNaN(ma) /\ close * MA_WINDOW >= ma[1] THEN 1 ELSE -1

SignalOf(close, ma) ==
    IF ~IsNaN(ma) /\ close * MA_WINDOW > ma[1] THEN 1 ELSE -1

IndicatorRow(df, i) ==
    [index          |-> i,
     close          |-> df[i],
     return         |-> Return(df, i),
     rolling_std_20 |-> RollingStd(df, i),
     MA200          |-> RollingMA(df, i),
     signal         |-> SignalOf(df[i], RollingMA(df, i))]

HasNaN_IgnoresMA(row) ==
    IsNaN(row.return) \/ IsNaN(row.rolling_std_20)

HasNaN(row) ==
    IsNaN(row.return) \/ IsNaN(row.rolling_std_20) \/ IsNaN(row.MA200)

\* dropna(): rows with any missing value are dropped, order is kept
compute_indicators(df) ==
    SelectSeq([i \in 1..Len(df) |-> IndicatorRow(df, i)], LAMBDA row : ~HasNaN(row))

\* ------------------------------------------------ get_front_month_contract
ValidToken(tok) == tok # << >> /\ Len(tok) >= MIN_TOKEN_LEN

ExpiryKey(c) == c.lastTradeDateOrContractMonth

\* list.sort(key=...) is stable: an element goes behind every element whose
\* key is not greater
RECURSIVE InsertByKey_Unstable(_, _)
InsertByKey_Unstable(c, sorted) ==
    IF sorted = << >> THEN <<c>>
    ELSE IF ~LexLess(ExpiryKey(Head(sorted)), ExpiryKey(c))
         THEN <<c>> \o sorted
         ELSE <<Head(sorted)>> \o InsertByKey_Unstable(c, Tail(sorted))

RECURSIVE InsertByKey(_, _)
InsertByKey(c, sorted) ==
    IF sorted = << >> THEN <<c>>
    ELSE IF LexLess(ExpiryKey(c), ExpiryKey(Head(sorted)))
         THEN <<c>> \o sorted
         ELSE <<Head(sorted)>> \o InsertByKey(c, Tail(sorted))

RECURSIVE SortByExpiry(_)
SortByExpiry(cs) ==
    IF cs = << >> THEN << >>
    ELSE InsertByKey(cs[Len(cs)], SortByExpiry(SubSeq(cs, 1, Len(cs) - 1)))

valid_contracts(details) ==
    SelectSeq(details, LAMBDA c : ValidToken(c.lastTradeDateOrContractMonth))

\* the reply is the details list of a request that did not raise
get_front_month_contract(details) ==
    IF details = << >> THEN None
    ELSE IF valid_contracts(details) = << >> THEN None
    ELSE Some(Head(SortByExpiry(valid_contracts(details))))

\* the line get_front_month_contract prints on its None paths
ResolveMessage(details) ==
    IF details = << >> THEN "WARNING_no_contract_details" ELSE "WARNING_no_valid_contracts"

\* ------------------------------------------------------------------ state
VARIABLES
    universe,         \* mlm_universe: the listed symbol codes, in order
    pc,               \* position in run_mlm_strategy
    session,          \* the IB session: "none", "connected", "disconnected"
    idx,              \* position of the fetch loop in mlm_universe
    symbol_data_map,  \* dict symbol -> {signal, vol}, in insertion order
    gate,             \* avg_vol, is_volatile, today, is_rebalance_day
    k,                \* position of the order loop in symbol_data_map
    front_contract,   \* the contract resolved for the current symbol
    orders,           \* the orders ib.placeOrder accepted
    log,              \* the lines printed
    exc,              \* the exception that left run_mlm_strategy, or "none"
    result,           \* "running", or "None" once run_mlm_strategy returned
    requests,         \* the broker requests made: [op, symbol, reply, n]
    details_in,       \* a details list handed to get_front_month_contract alone
    front_out,        \* what get_front_month_contract returned for it
    series_in,        \* a frame of closes handed to compute_indicators alone
    rows_out          \* what compute_indicators returned for it

vars == <<universe, pc, session, idx, symbol_data_map, gate, k, front_contract,
          orders, log, exc, result, requests, details_in, front_out,
          series_in, rows_out>>

\* --------------------------------------------------------- dict helpers
Keys(map) == {map[i].symbol : i \in 1..Len(map)}

Lookup(map, sym) == map[CHOOSE i \in 1..Len(map) : map[i].symbol = sym]

\* d[sym] = entry: a new key goes last, an existing key keeps its place
DictSet_Reset(map, entry) == <<entry>>

DictSet_Append(map, entry) == Append(map, entry)

DictSet(map, entry) ==
    IF entry.symbol \in Keys(map)
    THEN [i \in 1..Len(map) |-> IF map[i].symbol = entry.symbol THEN entry ELSE map[i]]
    ELSE Append(map, entry)

\* next((x for x in mlm_universe if x['symbol'] == sym), None): the position
\* of the first descriptor with that symbol code, 0 for None
SymbolInfo(u, sym) ==
    IF \E i \in 1..Len(u) : u[i] = sym
    THEN CHOOSE i \in 1..Len(u) : u[i] = sym /\ \A j \in 1..(i-1) : u[j] # sym
    ELSE 0

Line(msg, sym) == [msg |-> msg, symbol |-> sym]

Request(op, sym, reply, n) == [op |-> op, symbol |-> sym, reply |-> reply, n |-> n]

\* the for loop over mlm_universe (line 333) has no element left
FetchLoopDone_Early(i, u) == i > 1

FetchLoopDone(i, u) == i > Len(u)

\* ---------------------------------------------------------- the gates
\* not symbol_data_map
IsEmptyBasket_Never(map) == FALSE

IsEmptyBasket(map) == map = << >>

\* np.mean(all_vols) as the exact fraction num / den
AvgVol_ZeroFill(map) ==
    [num |-> SumSeq([i \in 1..Len(map) |-> map[i].vol]), den |-> Len(universe)]

AvgVol(map) ==
    [num |-> SumSeq([i \in 1..Len(map) |-> map[i].vol]), den |-> Len(map)]

\* avg_vol > VOL_THRESHOLD
IsVolatile(avg) == avg.num > VOL_THRESHOLD * avg.den

\* today.day == 25
IsRebalanceDay(day) == day = REBALANCE_DAY

\* if is_rebalance_day and is_volatile
GateOpen_Or(rebalance, volatile) == rebalance \/ volatile

GateOpen(rebalance, volatile) == rebalance /\ volatile

\* 'BUY' if latest_signal == 1 else 'SELL'
OrderAction_Inverted(latest_signal) == IF latest_signal = 1 THEN "SELL" ELSE "BUY"

OrderAction(latest_signal) == IF latest_signal = 1 THEN "BUY" ELSE "SELL"

\* MarketOrder(action, pos_size) on the resolved contract
MarketOrder(sym, contract, latest_signal) ==
    [symbol        |-> sym,
     contract      |-> contract,
     action        |-> OrderAction(latest_signal),
     totalQuantity |-> CONTRACT_SIZE]

\* ------------------------------------------------------------------ Init
Init ==
    /\ universe \in Universes
    /\ pc = "idle"
    /\ session = "none"
    /\ idx = 1
    /\ symbol_data_map = << >>
    /\ gate = None
    /\ k = 1
    /\ front_contract = None
    /\ orders = << >>
    /\ log = << >>
    /\ exc = "none"
    /\ result = "running"
    /\ requests = << >>
    /\ details_in = << >>
    /\ front_out = None
    /\ series_in = << >>
    /\ rows_out = None

\* ------------------------------------------------------------ connect_ibkr
ConnectOk ==
    /\ pc = "idle"
    /\ session' = "connected"
    /\ log' = Append(log, Line("INFO_connected", 0))
    /\ pc' = "fetch"
    /\ UNCHANGED <<universe, idx, symbol_data_map, gate, k, front_contract,
                   orders, exc, result, requests, details_in, front_out, series_in, rows_out>>

\* ib.connect raises, or isConnected() is false: ConnectionError leaves
\* run_mlm_strategy
ConnectFails_Ignored ==
    /\ pc = "idle"
    /\ log' = Append(log, Line("ERROR_connect_failed", 0))
    /\ pc' = "fetch"
    /\ UNCHANGED <<universe, session, idx, symbol_data_map, gate, k,
                   front_contract, orders, exc, result, requests, details_in,
                   front_out, series_in, rows_out>>

ConnectFails ==
    /\ pc = "idle"
    /\ exc' = "ConnectionError"
    /\ pc' = "raised"
    /\ UNCHANGED <<universe, session, idx, symbol_data_map, gate, k,
                   front_contract, orders, log, result, requests, details_in,
                   front_out, series_in, rows_out>>

\* ------------------------------------------- fetch loop body, lines 333-349
FetchAndCompute ==
    /\ pc = "fetch"
    /\ idx <= Len(universe)
    /\ \E reply \in HistoricalReplies :
         LET sym     == universe[idx]
             df_cont == get_continuous_data(reply)
             df_ind  == IF df_cont = None THEN << >> ELSE compute_indicators(Val(df_cont))
             last    == df_ind[Len(df_ind)]
         IN  /\ requests' = Append(requests,
                    Request("reqHistoricalData", sym, reply.kind, Len(reply.closes)))
             /\ IF df_cont = None
                THEN /\ log' = Append(log, Line(FetchMessage(reply), sym))
                     /\ UNCHANGED symbol_data_map
                ELSE IF df_ind = << >>
                THEN /\ log' = Append(log, Line("WARNING_not_enough_data", sym))
                     /\ UNCHANGED symbol_data_map
                ELSE /\ symbol_data_map' = DictSet(symbol_data_map,
                            [symbol |-> sym,
                             signal |-> last.signal,
                             vol    |-> last.rolling_std_20[1]])
                     /\ UNCHANGED log
    /\ idx' = idx + 1
    /\ UNCHANGED <<universe, pc, session, gate, k, front_contract, orders, exc,
                   result, details_in, front_out, series_in, rows_out>>

\* ------------------------------------------ empty basket exit, lines 351-354
NoDataExit ==
    /\ pc = "fetch"
    /\ FetchLoopDone(idx, universe)
    /\ IsEmptyBasket(symbol_data_map)
    /\ log' = Append(log, Line("ERROR_no_data_for_any_symbols", 0))
    /\ session' = "disconnected"
    /\ result' = "None"
    /\ pc' = "done"
    /\ UNCHANGED <<universe, idx, symbol_data_map, gate, k, front_contract,
                   orders, exc, requests, details_in, front_out, series_in, rows_out>>

\* --------------------------------- aggregation and gates, lines 356-370, 397-400
Gating ==
    /\ pc = "fetch"
    /\ FetchLoopDone(idx, universe)
    /\ ~IsEmptyBasket(symbol_data_map)
    /\ \E day \in Days :
         LET avg_vol          == AvgVol(symbol_data_map)
             is_volatile      == IsVolatile(avg_vol)
             is_rebalance_day == IsRebalanceDay(day)
         IN  /\ gate' = Some([avg_vol          |-> avg_vol,
                              is_volatile      |-> is_volatile,
                              today            |-> day,
                              is_rebalance_day |-> is_rebalance_day])
             /\ IF GateOpen(is_rebalance_day, is_volatile)
                THEN /\ log' = log \o <<Line("INFO_average_vol", 0),
                                        Line("INFO_volatility_check", 0),
                                        Line("INFO_placing_orders", 0)>>
                     /\ pc' = "resolve"
                     /\ UNCHANGED <<session, result>>
                ELSE /\ log' = log \o <<Line("INFO_average_vol", 0),
                                        Line("INFO_volatility_check", 0),
                                        Line("INFO_no_trades", 0)>>
                     /\ session' = "disconnected"
                     /\ result' = "None"
                     /\ pc' = "done"
    /\ UNCHANGED <<universe, idx, symbol_data_map, k, front_contract, orders, exc,
                   requests, details_in, front_out, series_in, rows_out>>

\* ----------------------------------- order loop body, first half: 372-383
Resolve ==
    /\ pc = "resolve"
    /\ k <= Len(symbol_data_map)
    /\ \E reply \in DetailsReplies :
         LET sym         == symbol_data_map[k].symbol
             symbol_info == SymbolInfo(universe, sym)
             front       == get_front_month_contract(reply.details)
         IN  IF symbol_info = 0
             THEN /\ k' = k + 1
                  /\ UNCHANGED <<pc, front_contract, log, exc, requests>>
             ELSE /\ requests' = Append(requests,
                         Request("reqContractDetails", universe[symbol_info],
                                 reply.kind, Len(reply.details)))
                  /\ IF reply.kind = "error"
                     THEN \* reqContractDetails raises: nothing catches it
                          /\ exc' = "MetadataFetchError"
                          /\ pc' = "raised"
                          /\ UNCHANGED <<k, front_contract, log>>
                     ELSE IF front = None
                     THEN /\ log' = log \o <<Line(ResolveMessage(reply.details), sym),
                                             Line("WARNING_no_front_month", sym)>>
                          /\ k' = k + 1
                          /\ UNCHANGED <<pc, front_contract, exc>>
                     ELSE /\ front_contract' = front
                          /\ pc' = "place"
                          /\ UNCHANGED <<k, log, exc>>
    /\ UNCHANGED <<universe, session, idx, symbol_data_map, gate, orders, result,
                   details_in, front_out, series_in, rows_out>>

\* ---------------------------------- order loop body, second half: 385-393
PlaceOrder ==
    /\ pc = "place"
    /\ LET sym   == symbol_data_map[k].symbol
           order == MarketOrder(sym, Val(front_contract), symbol_data_map[k].signal)
       IN  \/ /\ requests' = Append(requests, Request("placeOrder", sym, "ack", 0))
              /\ orders' = Append(orders, order)
              /\ log' = Append(log, Line("TRADE_placed", sym))
              /\ k' = k + 1
              /\ pc' = "resolve"
              /\ UNCHANGED exc
           \/ \* ib.placeOrder raises: nothing catches it
              /\ requests' = Append(requests, Request("placeOrder", sym, "error", 0))
              /\ exc' = "SubmissionError"
              /\ pc' = "raised"
              /\ UNCHANGED <<orders, log, k>>
    /\ UNCHANGED <<universe, session, idx, symbol_data_map, gate, front_contract,
                   result, details_in, front_out, series_in, rows_out>>

\* ------------------------------------- end of the order loop: 395-396, 400
FinishCycle ==
    /\ pc = "resolve"
    /\ k > Len(symbol_data_map)
    /\ session' = "disconnected"
    /\ result' = "None"
    /\ pc' = "done"
    /\ UNCHANGED <<universe, idx, symbol_data_map, gate, k, front_contract,
                   orders, log, exc, requests, details_in, front_out, series_in, rows_out>>

Next ==
    \/ ConnectOk
    \/ ConnectFails
    \/ FetchAndCompute
    \/ NoDataExit
    \/ Gating
    \/ Resolve
    \/ PlaceOrder
    \/ FinishCycle

Spec == Init /\ [][Next]_vars

\* ------------------------------------------------------------------------
\* get_front_month_contract on its own: the details list is any list of at
\* most MaxDetails listings over Tokens, the call returns its result.
InitResolver ==
    /\ universe = <<1>>
    /\ pc = "resolver"
    /\ session = "connected"
    /\ idx = 1
    /\ symbol_data_map = << >>
    /\ gate = None
    /\ k = 1
    /\ front_contract = None
    /\ orders = << >>
    /\ log = << >>
    /\ exc = "none"
    /\ result = "running"
    /\ requests = << >>
    /\ details_in \in {DetailsOf(t) : t \in TokenLists}
    /\ front_out = None
    /\ series_in = << >>
    /\ rows_out = None

CallResolver ==
    /\ pc = "resolver"
    /\ front_out' = get_front_month_contract(details_in)
    /\ pc' = "resolved"
    /\ UNCHANGED <<universe, session, idx, symbol_data_map, gate, k, front_contract,
                   orders, log, exc, result, requests, details_in, series_in,
                   rows_out>>

NextResolver == CallResolver

SpecResolver == InitResolver /\ [][NextResolver]_vars

\* ------------------------------------------------------------------------
\* compute_indicators on its own: the frame is any series of at most
\* MaxSeries closes, the call returns the derived rows.
InitIndicators ==
    /\ universe = <<1>>
    /\ pc = "indicators"
    /\ session = "connected"
    /\ idx = 1
    /\ symbol_data_map = << >>
    /\ gate = None
    /\ k = 1
    /\ front_contract = None
    /\ orders = << >>
    /\ log = << >>
    /\ exc = "none"
    /\ result = "running"
    /\ requests = << >>
    /\ details_in = << >>
    /\ front_out = None
    /\ series_in \in IndicatorSeries
    /\ rows_out = None

CallIndicators ==
    /\ pc = "indicators"
    /\ rows_out' = Some(compute_indicators(series_in))
    /\ pc' = "computed"
    /\ UNCHANGED <<universe, session, idx, symbol_data_map, gate, k, front_contract,
                   orders, log, exc, result, requests, details_in, front_out,
                   series_in>>

NextIndicators == CallIndicators

SpecIndicators == InitIndicators /\ [][NextIndicators]_vars

\* ========================================================================
\* Properties
\* ========================================================================
ReqIdx(op) == {i \in 1..Len(requests) : requests[i].op = op}
HistReqs   == ReqIdx("reqHistoricalData")
DetailReqs == ReqIdx("reqContractDetails")
PlaceReqs  == ReqIdx("placeOrder")

LogIdx(msgs) == {i \in 1..Len(log) : log[i].msg \in msgs}
HasLine(msg) == LogIdx({msg}) # {}

\* a series of n bars has a row with both indicators defined
EnoughHistory(n) == VOL_WINDOW >= 2 /\ n >= VOL_WINDOW + 1 /\ n >= MA_WINDOW

\* the fetch loop of the cycle has gone through the whole universe
FetchOver == idx > Len(universe)

\* the i-th instrument's fetch returned bars with enough history
ProducedSnapshot(i) ==
    /\ i <= Len(requests)
    /\ requests[i].op = "reqHistoricalData"
    /\ requests[i].reply = "bars"
    /\ EnoughHistory(requests[i].n)

FetchFailed(i) ==
    /\ i <= Len(requests)
    /\ requests[i].op = "reqHistoricalData"
    /\ (requests[i].reply = "error" \/ requests[i].n = 0)

SnapshotSymbols == {universe[i] : i \in {j \in 1..Len(universe) : ProducedSnapshot(j)}}

\* the mean of the latest volatilities exceeds the threshold
BasketVolatile ==
    /\ symbol_data_map # << >>
    /\ SumSeq([i \in 1..Len(symbol_data_map) |-> symbol_data_map[i].vol])
         > VOL_THRESHOLD * Len(symbol_data_map)

BothGatesOpen ==
    gate # None /\ Val(gate).today = REBALANCE_DAY /\ BasketVolatile

Resolved(sym) == \E j \in DetailReqs : requests[j].symbol = sym

\* C1: an order is submitted only when the basket's mean volatility exceeds the
\* threshold and today is the rebalance day; with the gates evaluated and one
\* of them false, the cycle ends with no contract resolved and no order
\* submitted.
Thm_C1_OrdersOnlyWhenBothGates ==
    /\ (PlaceReqs # {} \/ orders # << >>) => BothGatesOpen
    /\ (gate # None /\ ~BothGatesOpen) =>
          /\ PlaceReqs = {}
          /\ DetailReqs = {}
          /\ orders = << >>
          /\ pc = "done"

Witness_C1 == pc = "done" /\ Len(orders) >= 1 /\ BothGatesOpen

\* C2: a failing order submission is never thrown out of the cycle, and in a
\* cycle that ended after one every instrument with a snapshot had its
\* contract resolution attempted.
C2_SubmissionFailureIsolated ==
    /\ exc # "SubmissionError"
    /\ (pc \in {"done", "raised"}
          /\ \E i \in PlaceReqs : requests[i].reply = "error")
       => \A sym \in Keys(symbol_data_map) : Resolved(sym)

\* C3: with both gates open, a failing resolution (no tradable contract, or
\* the contract-details request raising) is never thrown out of the cycle,
\* and when the cycle has ended every instrument with a snapshot had its
\* contract resolution attempted.
C3_ResolutionFailureIsolated ==
    /\ exc # "MetadataFetchError"
    /\ (pc \in {"done", "raised"} /\ BothGatesOpen)
       => \A sym \in Keys(symbol_data_map) : Resolved(sym)

\* C4: once the fetch loop is over, every instrument of the universe was
\* fetched, whatever happened to the others; the snapshots kept are exactly
\* those of the instruments whose fetch gave enough bars; the mean is taken
\* over exactly these; and a cycle with both gates open that ran to its end
\* attempted the resolution of each of them.
Thm_C4_FetchFailureIsolated ==
    FetchOver =>
      /\ \A i \in 1..Len(universe) :
            /\ i <= Len(requests)
            /\ requests[i].op = "reqHistoricalData"
            /\ requests[i].symbol = universe[i]
      /\ Keys(symbol_data_map) = SnapshotSymbols
      /\ gate # None => Val(gate).avg_vol.den = Cardinality(SnapshotSymbols)
      /\ (pc = "resolve" /\ DetailReqs = {}) => k = 1
      /\ (pc = "done" /\ BothGatesOpen) => \A sym \in SnapshotSymbols : Resolved(sym)

Witness_C4 ==
    /\ pc = "done"
    /\ \E i \in 1..Len(universe) :
          /\ FetchFailed(i)
          /\ \E j \in 1..Len(orders) : orders[j].symbol # universe[i]

\* C5: the resolver returns a valid candidate of its input whose expiry token
\* no other valid candidate's token precedes, and among the valid candidates
\* with that same token the one that comes first in the input.
Thm_C5_FrontMonthIsFirstSmallest ==
    LET ValidIn == {i \in 1..Len(details_in) :
                       ValidToken(details_in[i].lastTradeDateOrContractMonth)}
    IN  (pc = "resolved" /\ ValidIn # {}) =>
          /\ front_out # None
          /\ Val(front_out).conId \in ValidIn
          /\ details_in[Val(front_out).conId] = Val(front_out)
          /\ \A i \in ValidIn :
                /\ ~LexLess(details_in[i].lastTradeDateOrContractMonth,
                            Val(front_out).lastTradeDateOrContractMonth)
                /\ details_in[i].lastTradeDateOrContractMonth
                      = Val(front_out).lastTradeDateOrContractMonth
                   => Val(front_out).conId <= i

Witness_C5 ==
    /\ pc = "resolved"
    /\ Len(details_in) = 3
    /\ front_out # None
    /\ Val(front_out).conId = 2
    /\ ValidToken(details_in[1].lastTradeDateOrContractMonth)
    /\ details_in[3].lastTradeDateOrContractMonth
          = Val(front_out).lastTradeDateOrContractMonth

\* a token that resolves to a year and a month: YYYYMM, optionally finer
ResolvesToYearMonth(tok) ==
    /\ Len(tok) >= 6
    /\ \A i \in 1..6 : tok[i] \in 0..9
    /\ (tok[5] * 10 + tok[6]) \in 1..12

\* C6: the resolver never returns a candidate whose expiry token is malformed
\* (empty, too short, or not resolvable to a year-month), and returns no
\* contract when no well-formed candidate is in its input.
C6_NeverMalformedToken ==
    pc = "resolved" =>
      /\ front_out # None =>
            ResolvesToYearMonth(Val(front_out).lastTradeDateOrContractMonth)
      /\ (\A i \in 1..Len(details_in) :
             ~ResolvesToYearMonth(details_in[i].lastTradeDateOrContractMonth))
         => front_out = None

\* C7: every order submission is for a symbol whose fetch in this cycle gave
\* bars with enough history; an instrument whose fetch failed, gave nothing
\* or gave too short a series is out of the snapshots before the gates are
\* evaluated.
Thm_C7_OrdersOnlyWithSnapshot ==
    /\ \A i \in PlaceReqs : requests[i].symbol \in SnapshotSymbols
    /\ \A j \in 1..Len(orders) : orders[j].symbol \in SnapshotSymbols
    /\ gate # None => Keys(symbol_data_map) \subseteq SnapshotSymbols

Witness_C7 ==
    /\ Len(orders) >= 1
    /\ \E i \in 1..Len(universe) :
          /\ i <= Len(requests)
          /\ requests[i].reply = "bars"
          /\ requests[i].n > 0
          /\ ~EnoughHistory(requests[i].n)
          /\ universe[i] \notin SnapshotSymbols

\* C8: every submitted order is a BUY when the latest signal of its own
\* instrument is +1 and a SELL when it is -1, and its quantity is the fixed
\* size.
Thm_C8_DirectionFromSignal ==
    \A j \in 1..Len(orders) :
       LET o == orders[j]
       IN  /\ o.symbol \in Keys(symbol_data_map)
           /\ Lookup(symbol_data_map, o.symbol).signal \in {1, -1}
           /\ Lookup(symbol_data_map, o.symbol).signal = 1 => o.action = "BUY"
           /\ Lookup(symbol_data_map, o.symbol).signal = -1 => o.action = "SELL"
           /\ o.totalQuantity = CONTRACT_SIZE

Witness_C8 ==
    /\ Len(orders) = 2
    /\ orders[1].action = "BUY"
    /\ orders[2].action = "SELL"
    /\ Lookup(symbol_data_map, orders[1].symbol).vol
          # Lookup(symbol_data_map, orders[2].symbol).vol

\* C9: when no instrument produced a snapshot the cycle ends right after the
\* fetch loop with the "no data" line: no gate is evaluated, no contract is
\* resolved, no order submitted, and the "no trades" line of a closed gate is
\* not printed; a cycle that prints "no trades" evaluated the gates and does
\* not print "no data".
Thm_C9_NoDataExitBeforeGating ==
    /\ (FetchOver /\ SnapshotSymbols = {} /\ pc # "fetch") =>
          /\ pc = "done"
          /\ gate = None
          /\ DetailReqs = {}
          /\ PlaceReqs = {}
          /\ orders = << >>
          /\ HasLine("ERROR_no_data_for_any_symbols")
          /\ ~HasLine("INFO_no_trades")
          /\ ~HasLine("INFO_volatility_check")
    /\ HasLine("INFO_no_trades") =>
          /\ gate # None
          /\ ~HasLine("ERROR_no_data_for_any_symbols")

Witness_C9 ==
    /\ pc = "done"
    /\ Len(universe) = 2
    /\ SnapshotSymbols = {}
    /\ HasLine("ERROR_no_data_for_any_symbols")

Thm_C11_ConnectionFailureAborts ==
    /\ exc = "ConnectionError" =>
          /\ pc = "raised"
          /\ session = "none"
          /\ idx = 1
          /\ requests = << >>
          /\ symbol_data_map = << >>
          /\ gate = None
          /\ orders = << >>
    /\ session = "none" => (requests = << >> /\ orders = << >> /\ pc \in {"idle", "raised"})

Witness_C11 == exc = "ConnectionError" /\ pc = "raised" /\ Len(universe) = 2

RECURSIVE SumVolOver(_)
SumVolOver(S) ==
    IF S = {} THEN 0
    ELSE LET x == CHOOSE y \in S : TRUE
         IN  Lookup(symbol_data_map, x).vol + SumVolOver(S \ {x})

\* C12: the mean used by the volatility gate has as numerator the sum of the
\* latest volatilities of exactly the instruments that produced a snapshot
\* and as denominator their number; the gate is that mean above the threshold.
Thm_C12_MeanOverSnapshotsOnly ==
    gate # None =>
      /\ Val(gate).avg_vol.den = Cardinality(SnapshotSymbols)
      /\ Val(gate).avg_vol.den > 0
      /\ Val(gate).avg_vol.num = SumVolOver(SnapshotSymbols)
      /\ Val(gate).is_volatile
            = (SumVolOver(SnapshotSymbols) > VOL_THRESHOLD * Cardinality(SnapshotSymbols))

\* one instrument without data, and a mean above the threshold that would be
\* below it had the missing instrument counted as zero
Witness_C12 ==
    /\ gate # None
    /\ Len(universe) = 2
    /\ \E i \in 1..Len(universe) : FetchFailed(i)
    /\ Val(gate).avg_vol.den = 1
    /\ Val(gate).is_volatile
    /\ Val(gate).avg_vol.num <= VOL_THRESHOLD * Len(universe)

\* C13: the gates are evaluated, a contract resolved or an order submitted
\* only when the fetch loop has gone through the whole universe: every
\* instrument's price request was made, and all of them precede every
\* contract and order request.
Thm_C13_AggregationIsBarrier ==
    /\ (gate # None \/ DetailReqs # {} \/ PlaceReqs # {} \/ orders # << >>) =>
          /\ FetchOver
          /\ Cardinality(HistReqs) = Len(universe)
          /\ \A i \in 1..Len(universe) :
                i \in HistReqs /\ requests[i].symbol = universe[i]
    /\ \A i \in HistReqs : \A j \in DetailReqs \cup PlaceReqs : i < j

Witness_C13 ==
    /\ pc = "done"
    /\ Len(universe) = 2
    /\ Len(orders) >= 1
    /\ \E i \in 1..Len(universe) : FetchFailed(i)

\* the first row at which both indicators are defined: VOL_WINDOW returns
\* need VOL_WINDOW + 1 closes, the moving average MA_WINDOW closes
FirstDefinedRow == IF VOL_WINDOW + 1 > MA_WINDOW THEN VOL_WINDOW + 1 ELSE MA_WINDOW

\* C14: compute_indicators returns exactly the rows of its input from the
\* first row at which both indicators are defined on, in input order, each
\* with both indicators present; for a shorter series it returns no row.
Thm_C14_RowsWithBothIndicators ==
    pc = "computed" =>
      /\ rows_out # None
      /\ Len(Val(rows_out)) =
            (IF Len(series_in) >= FirstDefinedRow
             THEN Len(series_in) - FirstDefinedRow + 1 ELSE 0)
      /\ \A j \in 1..Len(Val(rows_out)) :
            /\ Val(rows_out)[j].index = FirstDefinedRow + j - 1
            /\ Val(rows_out)[j].close = series_in[FirstDefinedRow + j - 1]
            /\ Val(rows_out)[j].rolling_std_20 # << >>
            /\ Val(rows_out)[j].MA200 # << >>

Witness_C14 ==
    /\ pc = "computed"
    /\ Len(series_in) = 6
    /\ Len(Val(rows_out)) = 3
    /\ Val(rows_out)[1].close # Val(rows_out)[3].close

\* the sum of the MA_WINDOW closes ending at row i of the input
WindowSum(i) == SumSeq(SubSeq(series_in, i - MA_WINDOW + 1, i))

\* C15: in every derived row the signal is +1 when the close is strictly above
\* the mean of the last MA_WINDOW closes and -1 otherwise, so -1 when equal.
Thm_C15_SignalStrictlyAboveMA ==
    pc = "computed" =>
      \A j \in 1..Len(Val(rows_out)) :
         LET row == Val(rows_out)[j]
         IN  /\ row.signal \in {1, -1}
             /\ row.close * MA_WINDOW > WindowSum(row.index) => row.signal = 1
             /\ row.close * MA_WINDOW <= WindowSum(row.index) => row.signal = -1

Witness_C15 ==
    /\ pc = "computed"
    /\ \E j \in 1..Len(Val(rows_out)) :
          /\ Val(rows_out)[j].close * MA_WINDOW = WindowSum(Val(rows_out)[j].index)
          /\ Val(rows_out)[j].signal = -1
    /\ \E j \in 1..Len(Val(rows_out)) : Val(rows_out)[j].signal = 1

\* C16: a cycle that established a session and has ended, by returning or by
\* an exception, has its session disconnected.
C16_SessionDisconnectedAtEnd ==
    (pc \in {"done", "raised"} /\ session # "none") => session = "disconnected"

\* C17: no two order submissions of a cycle are for the same symbol code, and
\* every order submission directly follows a contract-details request of this
\* cycle for the same symbol that returned listings, one of which, with a
\* valid token, is the order's contract.
Thm_C17_OneOrderPerSymbol ==
    /\ \A i \in PlaceReqs : \A j \in PlaceReqs :
          requests[i].symbol = requests[j].symbol => i = j
    /\ \A i \in 1..Len(orders) : \A j \in 1..Len(orders) :
          orders[i].symbol = orders[j].symbol => i = j
    /\ \A p \in PlaceReqs :
          /\ p > 1
          /\ requests[p-1].op = "reqContractDetails"
          /\ requests[p-1].symbol = requests[p].symbol
          /\ requests[p-1].reply = "details"
          /\ requests[p-1].n >= 1
    /\ \A i \in 1..Len(orders) :
          /\ ValidToken(orders[i].contract.lastTradeDateOrContractMonth)
          /\ \E p \in PlaceReqs :
                /\ requests[p].symbol = orders[i].symbol
                /\ requests[p].reply = "ack"
                /\ orders[i].contract.conId \in 1..requests[p-1].n

Witness_C17 ==
    /\ pc = "done"
    /\ Len(universe) = 2
    /\ universe[1] = universe[2]
    /\ ProducedSnapshot(1)
    /\ ProducedSnapshot(2)
    /\ Len(orders) = 1


====
